---- MODULE Spec2Model ----
(***************************************************************************)
(* The user-process system-call boundary of the Pintos teaching kernel.    *)
(*                                                                         *)
(* The repository holds two syscall layers: userprog/syscall.c             *)
(* (syscall_handler, validate_ptr, get_file_descriptor, ...) and a second  *)
(* one (handle_syscall, is_valid_mem_access, get_open_file, ...).  The     *)
(* variable impl says which of the two is compiled into the kernel.        *)
(*                                                                         *)
(* Addresses are cells: one cell holds one stack word or one character.    *)
(* A trap is decoded in one step up to the first lock_acquire, since the   *)
(* code before it touches only the calling process's memory and record.    *)
(***************************************************************************)
EXTENDS Integers, Sequences, FiniteSets, TLC

VARIABLES impl,         \* which syscall layer the kernel is built with
          pagedir,      \* pagedir[p]: the user pages mapped for process p
          pc,           \* pc[p]: where process p's kernel thread stands
          cur,          \* cur[p]: the trap being served for p
          open_fd_list, \* open_fd_list[p]: p's descriptor table (openfiles)
          next_fd,      \* next_fd[p]: p's next descriptor id
          exit_status,  \* exit_status[p]: status recorded by exit
          lock,         \* holder of file_system_lock / filesys_lock, 0 = free
          inFs,         \* threads inside a filesystem primitive
          openFiles,    \* underlying struct file handles that are open
          last_id,      \* last_id[p]: the id open last returned to p, 0 = none
          child_list,   \* child_list[p][t]: is thread t a child of p, and reaped
          con,          \* a write to the console: what putbuf has been given
          e2e           \* a scripted run: its step, the file, user data memory

vars == <<impl, pagedir, pc, cur, open_fd_list, next_fd, exit_status, lock,
          inFs, openFiles, last_id, child_list, con, e2e>>

-----------------------------------------------------------------------------
(* Bounds of the model *)

MaxOpens == 2      \* ids a process may consume before open is cut off
MaxStrLen == 2     \* longest string content (offset of the first NUL)
MaxSize == 2       \* largest buffer size / file position passed or returned
ConcOpens == 1     \* ids per process when two processes run side by side
MaxWrite == 450
MaxFileLen == 3    \* largest size of a write to the console

(* Program constants *)

NULL == 0
ERROR_STATUS == -1
KEYBOARD_INPUT == 0
CONSOLE_OUTPUT == 1
TID_ERROR == -1
BUF_MAX == 200

SYS_HALT == 0
SYS_EXIT == 1
SYS_EXEC == 2
SYS_WAIT == 3
SYS_CREATE == 4
SYS_REMOVE == 5
SYS_OPEN == 6
SYS_FILESIZE == 7
SYS_READ == 8
SYS_WRITE == 9
SYS_SEEK == 10
SYS_TELL == 11
SYS_CLOSE == 12

(* The address space, scaled down: page 0 (holding NULL) is never mapped,  *)
(* pages 1..2 are user pages, everything from PHYS_BASE up is kernel.      *)
PGSIZE == 2
PHYS_BASE == 6
KernelCells == 2
TopAddr == PHYS_BASE + KernelCells - 1
Addrs == 0..TopAddr
UserPages == 1..((PHYS_BASE \div PGSIZE) - 1)

(* First descriptor id handed out: ids 0 and 1 are the console streams.    *)
FirstFd == 2

Procs == {1, 2}
Impls == {"syscall_c", "part_002"}
Handles == 1..(2 * MaxOpens)
NoFile == 0

(* The filesystem primitives the handlers call *)
FsPrims == {"filesys_create", "filesys_remove", "filesys_open", "file_close",
            "file_read", "file_write", "file_seek", "file_tell", "file_length"}

-----------------------------------------------------------------------------
(* User-memory validation *)

is_kernel_vaddr(a) == a >= PHYS_BASE

pagedir_get_page(p, a) == (a \div PGSIZE) \in pagedir[p]

(* part_002: is_valid_mem_access *)
is_valid_mem_access(p, up) ==
    /\ up # NULL
    /\ ~is_kernel_vaddr(up)
    /\ pagedir_get_page(p, up)

(* A kernel-mode dereference of a that was not checked: kernel memory     *)
(* just above PHYS_BASE is mapped and readable, an unmapped user cell      *)
(* raises a page fault.                                                    *)
Faults(p, a) == ~is_kernel_vaddr(a) /\ ~pagedir_get_page(p, a)


Min(S) == CHOOSE x \in S : \A y \in S : x <= y

-----------------------------------------------------------------------------
(* The trap being served.  out = "go" while the dispatcher is still        *)
(* running; every step below passes a finished trap through unchanged,     *)
(* which is how "exit never returns" reads here.                           *)

(* The words above esp of a trap whose number has been read; before that  *)
(* the record holds NoInput                                                *)
NoInput == [esp |-> 0, num |-> 0, w1 |-> 0, w2 |-> 0, w3 |-> 0, len |-> 0]

NewTrap(in) ==
    [out |-> "go", esp |-> in.esp, num |-> 0, numRead |-> FALSE,
     fd |-> 0, ptr |-> 0, size |-> 0, len |-> in.len, pid |-> 0,
     args |-> {}, checked |-> {}, stack |-> {}, data |-> {}, ops |-> {},
     prim |-> "none", file |-> NoFile, newfd |-> 0, alloc |-> FALSE,
     res |-> 0, hasRet |-> FALSE, val |-> 0, eaxW |-> FALSE, eax |-> 0,
     status |-> 0, ids0 |-> {}, nfd0 |-> 0,
     in |-> NoInput, tid |-> 0, load |-> "none", init_sema |-> 0, kids0 |-> {},
     handler |-> "none", hargs |-> <<>>, getc |-> 0, stored |-> <<>>,
     recs |-> 0]

Idle == NewTrap(NoInput)

Go(r) == r.out = "go"

(* The byte at a is the string's terminator *)
IsNul(r, a) == a = r.ptr + r.len

(* thread_current(): the record of the calling thread *)
thread_current(p) == p

(* syscall.c: syscall_exit, part_002: exit_user_program *)
syscall_exit(r, status) ==
    IF ~Go(r) THEN r ELSE [r EXCEPT !.out = "exit", !.status = status]

exit_user_program(r, status) ==
    IF ~Go(r) THEN r ELSE [r EXCEPT !.out = "exit", !.status = status]

(* A kernel-mode read or write of cell a of the string or buffer argument, *)
(* made without asking whether a is valid                                  *)
Deref(p, r, a) ==
    IF ~Go(r) THEN r
    ELSE IF Faults(p, a) THEN [r EXCEPT !.data = @ \cup {a}, !.out = "fault"]
    ELSE [r EXCEPT !.data = @ \cup {a}]

(* Cells a..a+n-1 accessed in ascending order, stopping at the first fault *)
RECURSIVE DerefRange(_, _, _, _)
DerefRange(p, r, a, n) ==
    IF n <= 0 \/ ~Go(r) THEN r
    ELSE DerefRange(p, Deref(p, r, a), a + 1, n - 1)

(* A collaborator (filesys_open, filesys_create, filesys_remove,           *)
(* process_execute) reading the string at r.ptr up to its terminator       *)
RECURSIVE ReadString(_, _, _)
ReadString(p, r, s) ==
    LET r1 == Deref(p, r, s) IN
    IF ~Go(r1) \/ IsNul(r1, s) THEN r1 ELSE ReadString(p, r1, s + 1)

(* syscall.c: validate_ptr *)
validate_ptr(p, r, ptr) ==
    IF ~Go(r) THEN r
    ELSE LET r1 == [r EXCEPT !.checked = @ \cup {ptr}] IN
         IF ptr = NULL THEN syscall_exit(r1, ERROR_STATUS)
         ELSE IF is_kernel_vaddr(ptr) THEN syscall_exit(r1, ERROR_STATUS)
         ELSE IF ~pagedir_get_page(thread_current(p), ptr)
              THEN syscall_exit(r1, ERROR_STATUS)
         ELSE r1

(* syscall.c: validate_string; the loop reads *_str, then checks _str+1 *)
RECURSIVE validate_string_loop(_, _, _)
validate_string_loop(p, r, str) ==
    LET r1 == Deref(p, r, str) IN
    IF ~Go(r1) \/ IsNul(r1, str) THEN r1
    ELSE validate_string_loop(p, validate_ptr(p, r1, str + 1), str + 1)

validate_string(p, r, str) ==
    LET r1 == validate_ptr(p, r, str) IN
    IF ~Go(r1) THEN r1 ELSE validate_string_loop(p, r1, str)

(* syscall.c: validate_buffer; buffer itself is checked whatever size is *)
RECURSIVE validate_buffer_loop(_, _, _, _, _)
validate_buffer_loop(p, r, buffer, size, i) ==
    IF ~Go(r) \/ i >= size THEN r
    ELSE validate_buffer_loop(p, validate_ptr(p, r, buffer + i), buffer, size, i + 1)

validate_buffer(p, r, buffer, size) ==
    validate_buffer_loop(p, validate_ptr(p, r, buffer), buffer, size, 0)

(* part_002: the check-or-exit idiom  if (!is_valid_mem_access(x)) exit(-1) *)
CheckAccess(p, r, up) ==
    IF ~Go(r) THEN r
    ELSE LET r1 == [r EXCEPT !.checked = @ \cup {up}] IN
         IF is_valid_mem_access(thread_current(p), up) THEN r1
         ELSE exit_user_program(r1, -1)

-----------------------------------------------------------------------------
(* Steps shared by the handlers of both layers *)

Return(r, v) == IF ~Go(r) THEN r ELSE [r EXCEPT !.out = "ret", !.val = v]

ReturnVoid(r) == IF ~Go(r) THEN r ELSE [r EXCEPT !.out = "ret"]

(* lock_acquire(&file_system_lock) is reached with primitive prim pending *)
Lock(r, prim, file) ==
    IF ~Go(r) THEN r ELSE [r EXCEPT !.out = "lock", !.prim = prim, !.file = file]

(* A handle record (struct file_descriptor, struct openfile) is allocated  *)
(* or released; recs counts the records this trap has allocated and not   *)
(* released                                                                *)
malloc(r) == IF ~Go(r) THEN r ELSE [r EXCEPT !.recs = @ + 1]

free(r) == IF ~Go(r) THEN r ELSE [r EXCEPT !.recs = @ - 1]

(* A call into the process-lifecycle collaborator is reached *)
Collab(r, prim) ==
    IF ~Go(r) THEN r ELSE [r EXCEPT !.out = "collab", !.prim = prim]

(* The dispatcher calls the handler of this name with these arguments *)
Enter(r, name, hargs) ==
    IF ~Go(r) THEN r ELSE [r EXCEPT !.handler = name, !.hargs = hargs]

AddOp(r, op) == IF ~Go(r) THEN r ELSE [r EXCEPT !.ops = @ \cup {op}]

(* The kernel reads the stack word i cells above esp *)
Arg(p, r, i) ==
    IF ~Go(r) THEN r
    ELSE IF Faults(p, r.esp + i)
    THEN [r EXCEPT !.stack = @ \cup {r.esp + i}, !.out = "fault"]
    ELSE [r EXCEPT !.stack = @ \cup {r.esp + i}]

(* The word just read is the call's fd / pointer / size / pid argument *)
WithFd(r, fd) ==
    IF ~Go(r) THEN r ELSE [r EXCEPT !.fd = fd, !.args = @ \cup {"fd"}]
WithPtr(r, ptr) ==
    IF ~Go(r) THEN r ELSE [r EXCEPT !.ptr = ptr, !.args = @ \cup {"ptr"}]
WithSize(r, size) ==
    IF ~Go(r) THEN r ELSE [r EXCEPT !.size = size, !.args = @ \cup {"size"}]
WithPid(r, pid) ==
    IF ~Go(r) THEN r ELSE [r EXCEPT !.pid = pid, !.args = @ \cup {"pid"}]

(* f->eax = handler(...): the dispatcher stores what the handler returns *)
StoreEax(r) ==
    IF r.out \in {"ret", "lock", "collab"} THEN [r EXCEPT !.hasRet = TRUE] ELSE r

(* C15 mutant: eax is stored whenever a handler comes back *)
Finish_always(r) ==
    IF r.out = "ret" THEN [r EXCEPT !.eaxW = TRUE, !.eax = r.val] ELSE r

(* The handler has returned to the dispatcher and the trap ends *)
Finish(r) ==
    IF r.out = "ret" /\ r.hasRet THEN [r EXCEPT !.eaxW = TRUE, !.eax = r.val]
    ELSE r

(* syscall.c: get_file_descriptor, part_002: get_open_file.  The position  *)
(* of the first entry of the calling thread's list with this id, 0 = NULL. *)
get_file_descriptor(p, fd) ==
    LET l == open_fd_list[thread_current(p)]
        hit == {i \in 1..Len(l) : l[i].fd = fd}
    IN IF hit = {} THEN 0 ELSE Min(hit)

get_open_file(p, fd) ==
    LET l == open_fd_list[thread_current(p)]
        hit == {i \in 1..Len(l) : l[i].fd = fd}
    IN IF hit = {} THEN 0 ELSE Min(hit)

FileOf(p, i) == open_fd_list[thread_current(p)][i].file

-----------------------------------------------------------------------------
(* syscall.c: the handlers, up to their lock_acquire *)

syscall_exec(p, r, commandLineArguments) ==
    LET e == Enter(r, "exec", <<commandLineArguments>>) IN
    Collab(e, "process_execute")

syscall_seek(p, r, fd, pos) ==
    LET e == Enter(r, "seek", <<fd, pos>>) IN
    LET d == get_file_descriptor(p, fd) IN
    IF d # 0 THEN Lock(e, "file_seek", FileOf(p, d)) ELSE ReturnVoid(e)

syscall_tell(p, r, fd) ==
    LET e == Enter(r, "tell", <<fd>>) IN
    LET d == get_file_descriptor(p, fd) IN
    IF d = 0 THEN Return(e, 0) ELSE Lock(e, "file_tell", FileOf(p, d))

(* C8 mutant: filesys_create is called without lock_acquire before it *)
syscall_create_unlocked(p, r, file, initialSize) ==
    IF ~Go(r) THEN r
    ELSE [r EXCEPT !.out = "nolock", !.prim = "filesys_create", !.file = NoFile]

syscall_create(p, r, file, initialSize) ==
    LET e == Enter(r, "create", <<file, initialSize>>) IN
    Lock(e, "filesys_create", NoFile)

syscall_remove(p, r, file) ==
    LET e == Enter(r, "remove", <<file>>) IN
    Lock(e, "filesys_remove", NoFile)

(* input_getc: the next character of the keyboard, numbered as taken *)
input_getc(r) ==
    IF ~Go(r) THEN r
    ELSE [r EXCEPT !.getc = @ + 1, !.ops = @ \cup {"input_getc"}]

(* The character just taken is stored at user address a *)
StoreChar(p, r, a) ==
    LET d == Deref(p, r, a) IN
    IF ~Go(d) THEN d ELSE [d EXCEPT !.stored = Append(@, <<a, r.getc>>)]

(* syscall.c: syscall_read, the loop of the keyboard branch *)
RECURSIVE syscall_read_loop(_, _, _, _, _)
syscall_read_loop(p, r, buffer, size, i) ==
    IF ~Go(r) \/ i >= size THEN r
    ELSE syscall_read_loop(p, StoreChar(p, input_getc(r), buffer + i),
                           buffer, size, i + 1)

syscall_read(p, r, fd, buffer, size) ==
    LET e == Enter(r, "read", <<fd, buffer, size>>) IN
    IF fd = KEYBOARD_INPUT
    THEN Return(syscall_read_loop(p, e, buffer, size, 0), size)
    ELSE IF fd = CONSOLE_OUTPUT THEN Return(e, ERROR_STATUS)
    ELSE LET d == get_file_descriptor(p, fd) IN
         IF d = 0 THEN Return(e, ERROR_STATUS)
         ELSE Lock(e, "file_read", FileOf(p, d))

syscall_open(p, r, file) ==
    LET e == Enter(r, "open", <<file>>) IN
    Lock(malloc(e), "filesys_open", NoFile)

syscall_filesize(p, r, fd) ==
    LET e == Enter(r, "filesize", <<fd>>) IN
    LET d == get_file_descriptor(p, fd) IN
    IF d = 0 THEN Return(e, ERROR_STATUS) ELSE Lock(e, "file_length", FileOf(p, d))

syscall_write(p, r, fd, buffer, size) ==
    LET e == Enter(r, "write", <<fd, buffer, size>>) IN
    IF fd = CONSOLE_OUTPUT
    THEN Return(DerefRange(p, AddOp(e, "putbuf"), buffer, size), size)
    ELSE IF fd = KEYBOARD_INPUT THEN Return(e, ERROR_STATUS)
    ELSE LET d == get_file_descriptor(p, fd) IN
         IF d = 0 THEN Return(e, ERROR_STATUS)
         ELSE Lock(e, "file_write", FileOf(p, d))

syscall_close(p, r, fd) ==
    LET e == Enter(r, "close", <<fd>>) IN
    LET d == get_file_descriptor(p, fd) IN
    IF d # 0 THEN Lock(e, "file_close", FileOf(p, d)) ELSE ReturnVoid(e)

(* syscall.c: syscall_handler, default: do nothing *)
syscall_handler_default(p, r) == ReturnVoid(r)

(* syscall.c: syscall_handler, the dispatcher *)
syscall_handler(p, in) ==
    LET r1 == validate_ptr(p, NewTrap(in), in.esp)
        r2 == IF ~Go(r1) THEN r1
              ELSE [Arg(p, r1, 0) EXCEPT !.num = in.num, !.numRead = TRUE, !.in = in]
    IN
    IF ~Go(r2) THEN r2
    ELSE CASE in.num = SYS_EXIT ->
                syscall_exit(Enter(Arg(p, r2, 1), "exit", <<in.w1>>), in.w1)
           [] in.num = SYS_EXEC ->
                LET a == WithPtr(Arg(p, r2, 1), in.w1)
                    v == validate_string(p, a, in.w1)
                IN StoreEax(syscall_exec(p, v, in.w1))
           [] in.num = SYS_WAIT ->
                StoreEax(Collab(Enter(WithPid(r2, in.num + 1), "wait",
                                      <<in.num + 1>>), "process_wait"))
           [] in.num = SYS_OPEN ->
                LET a == WithPtr(Arg(p, r2, 1), in.w1)
                    v == validate_string(p, a, in.w1)
                IN StoreEax(syscall_open(p, v, in.w1))
           [] in.num = SYS_CREATE ->
                LET a == WithPtr(Arg(p, r2, 1), in.w1)
                    v == validate_string(p, a, in.w1)
                    b == WithSize(Arg(p, v, 2), in.w2)
                IN StoreEax(syscall_create(p, b, in.w1, in.w2))
           [] in.num = SYS_REMOVE ->
                LET a == WithPtr(Arg(p, r2, 1), in.w1)
                    v == validate_string(p, a, in.w1)
                IN StoreEax(syscall_remove(p, v, in.w1))
           [] in.num = SYS_HALT ->
                [AddOp(Enter(r2, "halt", <<>>), "shutdown_power_off")
                    EXCEPT !.out = "halt"]
           [] in.num = SYS_READ ->
                LET a == WithPtr(Arg(p, r2, 2), in.w2)
                    b == WithSize(Arg(p, a, 3), in.w3)
                    v == validate_buffer(p, b, in.w2, in.w3)
                    c == WithFd(Arg(p, v, 1), in.w1)
                IN StoreEax(syscall_read(p, c, in.w1, in.w2, in.w3))
           [] in.num = SYS_WRITE ->
                LET a == WithPtr(Arg(p, r2, 2), in.w2)
                    b == WithSize(Arg(p, a, 3), in.w3)
                    v == validate_buffer(p, b, in.w2, in.w3)
                    c == WithFd(Arg(p, v, 1), in.w1)
                IN StoreEax(syscall_write(p, c, in.w1, in.w2, in.w3))
           [] in.num = SYS_FILESIZE ->
                LET a == WithFd(Arg(p, r2, 1), in.w1)
                IN StoreEax(syscall_filesize(p, a, in.w1))
           [] in.num = SYS_SEEK ->
                LET a == WithSize(Arg(p, r2, 2), in.w2)
                    b == WithFd(Arg(p, a, 1), in.w1)
                IN syscall_seek(p, b, in.w1, in.w2)
           [] in.num = SYS_TELL ->
                LET a == WithFd(Arg(p, r2, 1), in.w1)
                IN StoreEax(syscall_tell(p, a, in.w1))
           [] in.num = SYS_CLOSE ->
                LET a == WithFd(Arg(p, r2, 1), in.w1)
                IN syscall_close(p, a, in.w1)
           [] OTHER -> syscall_handler_default(p, r2)

-----------------------------------------------------------------------------
(* part_002: the handlers, up to their lock_acquire *)

exec_user_program(p, r, cmd_line) ==
    LET e == Enter(r, "exec", <<cmd_line>>) IN
    Collab(CheckAccess(p, e, cmd_line), "process_execute")

wait_for_user_program(p, r, pid) ==
    LET e == Enter(r, "wait", <<pid>>) IN
    Collab(WithPid(e, pid), "process_wait")

create_user_program(p, r, file, initial_size) ==
    LET e == Enter(r, "create", <<file, initial_size>>) IN
    Lock(CheckAccess(p, e, file), "filesys_create", NoFile)

remove_user_program(p, r, file) ==
    LET e == Enter(r, "remove", <<file>>) IN
    Lock(CheckAccess(p, e, file), "filesys_remove", NoFile)

(* new->fd is taken and next_fd advanced before filesys_open is called *)
open_user_program(p, r, file) ==
    LET e == Enter(r, "open", <<file>>) IN
    LET v == CheckAccess(p, e, file) IN
    IF ~Go(v) THEN v
    ELSE Lock([malloc(v) EXCEPT !.newfd = next_fd[thread_current(p)],
                                !.alloc = TRUE],
              "filesys_open", NoFile)

get_user_program_filesize(p, r, fd) ==
    LET e == Enter(r, "filesize", <<fd>>) IN
    LET of == get_open_file(p, fd) IN
    IF of = 0 THEN Return(e, 0) ELSE Lock(e, "file_length", FileOf(p, of))

(* part_002: read_user_program, the loop of the branch fd == 0: the       *)
(* characters taken by input_getc are not stored anywhere                  *)
RECURSIVE read_user_program_loop(_, _)
read_user_program_loop(r, size) ==
    IF ~Go(r) \/ size <= 0 THEN r
    ELSE read_user_program_loop(input_getc(r), size - 1)

read_user_program(p, r, fd, buffer, size) ==
    LET e == Enter(r, "read", <<fd, buffer, size>>) IN
    LET v == CheckAccess(p, e, buffer) IN
    IF ~Go(v) THEN v
    ELSE IF fd = 0
    THEN Return(read_user_program_loop(v, size), size)
    ELSE LET of == get_open_file(p, fd) IN
         IF of = 0 THEN Return(v, -1) ELSE Lock(v, "file_read", FileOf(p, of))

(* fd 1: putbuf in pieces of BUF_MAX, which together read buffer[0..size) *)
write_user_program(p, r, fd, buffer, size) ==
    LET e == Enter(r, "write", <<fd, buffer, size>>) IN
    LET v == CheckAccess(p, e, buffer) IN
    IF ~Go(v) THEN v
    ELSE IF fd = 1
    THEN Return(DerefRange(p, AddOp(v, "putbuf"), buffer, size), size)
    ELSE LET of == get_open_file(p, fd) IN
         IF of = 0 THEN Return(v, 0) ELSE Lock(v, "file_write", FileOf(p, of))

seek_user_program(p, r, fd, position) ==
    LET e == Enter(r, "seek", <<fd, position>>) IN
    LET of == get_open_file(p, fd) IN
    IF of = 0 THEN ReturnVoid(e) ELSE Lock(e, "file_seek", FileOf(p, of))

tell_user_program(p, r, fd) ==
    LET e == Enter(r, "tell", <<fd>>) IN
    LET of == get_open_file(p, fd) IN
    IF of = 0 THEN Return(e, 0) ELSE Lock(e, "file_tell", FileOf(p, of))

close_user_program(p, r, fd) ==
    LET e == Enter(r, "close", <<fd>>) IN
    LET of == get_open_file(p, fd) IN
    IF of = 0 THEN ReturnVoid(e) ELSE Lock(e, "file_close", FileOf(p, of))

(* C16 mutant: an unknown number runs into the case above the default *)
handle_syscall_default_falls(p, r) ==
    close_user_program(p, WithFd(Arg(p, r, 1), r.in.w1), r.in.w1)

(* part_002: handle_syscall, default: the process is terminated *)
handle_syscall_default(p, r) == exit_user_program(r, -1)

(* part_002: handle_syscall, the dispatcher *)
handle_syscall(p, in) ==
    LET r0 == CheckAccess(p, NewTrap(in), in.esp)
        r1 == CheckAccess(p, r0, in.esp + 1)
        r2 == IF ~Go(r1) THEN r1
              ELSE [Arg(p, r1, 0) EXCEPT !.num = in.num, !.numRead = TRUE, !.in = in]
    IN
    IF ~Go(r2) THEN r2
    ELSE CASE in.num = 0 ->
                [AddOp(Enter(r2, "halt", <<>>), "shutdown_power_off")
                    EXCEPT !.out = "halt"]
           [] in.num = 1 ->
                exit_user_program(Enter(Arg(p, r2, 1), "exit", <<in.w1>>), in.w1)
           [] in.num = 2 ->
                LET a == WithPtr(Arg(p, r2, 1), in.w1)
                IN StoreEax(exec_user_program(p, a, in.w1))
           [] in.num = 3 ->
                LET a == Arg(p, r2, 1)
                IN StoreEax(wait_for_user_program(p, a, in.w1))
           [] in.num = 4 ->
                LET a == WithPtr(Arg(p, r2, 1), in.w1)
                    b == WithSize(Arg(p, a, 2), in.w2)
                IN StoreEax(create_user_program(p, b, in.w1, in.w2))
           [] in.num = 5 ->
                LET a == WithPtr(Arg(p, r2, 1), in.w1)
                IN StoreEax(remove_user_program(p, a, in.w1))
           [] in.num = 6 ->
                LET a == WithPtr(Arg(p, r2, 1), in.w1)
                IN StoreEax(open_user_program(p, a, in.w1))
           [] in.num = 7 ->
                LET a == WithFd(Arg(p, r2, 1), in.w1)
                IN StoreEax(get_user_program_filesize(p, a, in.w1))
           [] in.num = 8 ->
                LET a == WithFd(Arg(p, r2, 1), in.w1)
                    b == WithPtr(Arg(p, a, 2), in.w2)
                    c == WithSize(Arg(p, b, 3), in.w3)
                IN StoreEax(read_user_program(p, c, in.w1, in.w2, in.w3))
           [] in.num = 9 ->
                LET a == WithFd(Arg(p, r2, 1), in.w1)
                    b == WithPtr(Arg(p, a, 2), in.w2)
                    c == WithSize(Arg(p, b, 3), in.w3)
                IN StoreEax(write_user_program(p, c, in.w1, in.w2, in.w3))
           [] in.num = 10 ->
                LET a == WithFd(Arg(p, r2, 1), in.w1)
                    b == WithSize(Arg(p, a, 2), in.w2)
                IN seek_user_program(p, b, in.w1, in.w2)
           [] in.num = 11 ->
                LET a == WithFd(Arg(p, r2, 1), in.w1)
                IN StoreEax(tell_user_program(p, a, in.w1))
           [] in.num = 12 ->
                LET a == WithFd(Arg(p, r2, 1), in.w1)
                IN close_user_program(p, a, in.w1)
           [] OTHER -> handle_syscall_default(p, r2)

-----------------------------------------------------------------------------
(* The handlers after their filesystem primitive has returned r.res and    *)
(* the lock has been released                                              *)

RemoveAt(l, i) == SubSeq(l, 1, i - 1) \o SubSeq(l, i + 1, Len(l))

(* syscall.c: syscall_open from "if (filePointer == NULL)" on: the id is   *)
(* taken from next_fd only when the file was opened                        *)
(* C10 mutant: the id comes from one counter shared by all processes *)
syscall_open_fd_shared(p, r) == next_fd[1]

syscall_open_fd(p, r) == next_fd[thread_current(p)]

(* C19 mutant: the file is opened and its entry is never put in the list *)
syscall_open_list_dropped(p, r) == open_fd_list[thread_current(p)]

syscall_open_list(p, r) ==
    IF r.res = NoFile THEN open_fd_list[thread_current(p)]
    ELSE Append(open_fd_list[thread_current(p)],
                [fd |-> syscall_open_fd(p, r), file |-> r.res])

(* C5 mutant: the counter is left alone after a successful open *)
syscall_open_next_fd_stuck(p, r) == next_fd[thread_current(p)]

syscall_open_next_fd(p, r) ==
    IF r.res = NoFile THEN next_fd[thread_current(p)]
    ELSE next_fd[thread_current(p)] + 1

(* part_002: open_user_program from "if (new->file == NULL)" on *)
open_user_program_list(p, r) ==
    IF r.res = NoFile THEN open_fd_list[thread_current(p)]
    ELSE Append(open_fd_list[thread_current(p)],
                [fd |-> r.newfd, file |-> r.res])

(* C18 mutant: close leaves the entry in the list *)
syscall_close_list_kept(p, r) == open_fd_list[thread_current(p)]

(* syscall.c: syscall_close, part_002: close_user_program: list_remove of  *)
(* the entry that the lookup returned                                      *)
syscall_close_list(p, r) ==
    RemoveAt(open_fd_list[thread_current(p)], get_file_descriptor(p, r.fd))

(* C22 mutant: close unlinks the first entry of the list *)
close_user_program_list_head(p, r) == Tail(open_fd_list[thread_current(p)])

close_user_program_list(p, r) ==
    RemoveAt(open_fd_list[thread_current(p)], get_open_file(p, r.fd))

(* C9 mutant: a failed open returns before lock_release *)
ReleasesLock_not_on_failed_open(p, r) ==
    r.prim \in FsPrims /\ ~(r.prim = "filesys_open" /\ r.res = NoFile)

(* Every handler calls lock_release right after its primitive, on every    *)
(* path                                                                    *)
ReleasesLock(p, r) == r.prim \in FsPrims

(* The value the handler returns once its primitive is done *)
HandlerResult(p, r) ==
    LET g == [r EXCEPT !.out = "go"] IN
    CASE r.prim \in {"filesys_create", "filesys_remove", "file_length",
                     "file_tell", "file_read", "file_write"} -> Return(g, r.res)
      [] r.prim = "filesys_open" ->
            IF r.res = NoFile THEN Return(g, -1)
            ELSE IF impl = "syscall_c" THEN Return(g, syscall_open_fd(p, r))
            ELSE Return(g, r.newfd)
      [] r.prim = "file_close" -> ReturnVoid(free(g))
      [] OTHER -> ReturnVoid(g)

ListAfter(p, r) ==
    CASE r.prim = "filesys_open" ->
            IF impl = "syscall_c" THEN syscall_open_list(p, r)
            ELSE open_user_program_list(p, r)
      [] r.prim = "file_close" ->
            IF impl = "syscall_c" THEN syscall_close_list(p, r)
            ELSE close_user_program_list(p, r)
      [] OTHER -> open_fd_list[thread_current(p)]

NextFdAfter(p, r) ==
    IF r.prim = "filesys_open" /\ impl = "syscall_c"
    THEN syscall_open_next_fd(p, r) ELSE next_fd[thread_current(p)]

-----------------------------------------------------------------------------
(* The filesystem and process collaborators, at their interface *)

FreeHandles == Handles \ openFiles

(* What a primitive may return *)
PrimResults(r) ==
    CASE r.prim \in {"filesys_create", "filesys_remove"} -> {0, 1}
      [] r.prim = "filesys_open" ->
            {NoFile} \cup (IF FreeHandles = {} THEN {} ELSE {Min(FreeHandles)})
      [] r.prim \in {"file_length", "file_tell"} -> 0..MaxSize
      [] r.prim \in {"file_read", "file_write"} -> 0..r.size
      [] OTHER -> {0}

(* The user memory a primitive goes through while it runs *)
PrimAccess(p, r, res) ==
    LET g == [r EXCEPT !.out = "go"] IN
    CASE r.prim \in {"filesys_create", "filesys_remove", "filesys_open",
                     "process_execute"} -> ReadString(p, g, r.ptr)
      [] r.prim \in {"file_read", "file_write"} -> DerefRange(p, g, r.ptr, res)
      [] OTHER -> g

OpenFilesAfter(r, res) ==
    CASE r.prim = "filesys_open" /\ res # NoFile -> openFiles \cup {res}
      [] r.prim = "file_close" -> openFiles \ {r.file}
      [] OTHER -> openFiles

(* The process-lifecycle collaborator: process_execute creates a child   *)
(* thread, or fails with TID_ERROR; process_wait gives the exit status of  *)
(* a child that has not been waited for, and -1 for any other pid          *)
ChildTids == {4}

(* The pids a user program may wait for: its child or a stranger *)
WaitPids == ChildTids \cup {5}

FreshTids(p) == {t \in ChildTids : child_list[p][t] = "none"}

Waitable(p, pid) == pid \in ChildTids /\ child_list[p][pid] = "child"

CollabResults(p, r) ==
    IF r.prim = "process_execute"
    THEN {TID_ERROR} \cup (IF FreshTids(p) = {} THEN {} ELSE {Min(FreshTids(p))})
    ELSE IF Waitable(p, r.pid) THEN {-1, 0, 1} ELSE {-1}

ChildListAfter(p, r, v) ==
    CASE r.prim = "process_execute" /\ v # TID_ERROR ->
            [child_list[p] EXCEPT ![v] = "child"]
      [] r.prim = "process_wait" /\ Waitable(p, r.pid) ->
            [child_list[p] EXCEPT ![r.pid] = "reaped"]
      [] OTHER -> child_list[p]

(* C24 mutant: the parent waits on a semaphore the child does not signal *)
syscall_exec_created_unsignalled(p, r, child_tid) ==
    IF child_tid = TID_ERROR THEN Return(r, child_tid)
    ELSE [r EXCEPT !.out = "sema", !.tid = child_tid]

(* syscall.c: syscall_exec once process_execute has returned child_tid: on *)
(* TID_ERROR it returns, otherwise it finds the child in child_list and    *)
(* goes to sema_down(&childThread->init_sema)                              *)
syscall_exec_created(p, r, child_tid) ==
    IF child_tid = TID_ERROR THEN Return(r, child_tid)
    ELSE IF ChildListAfter(p, r, child_tid)[child_tid] # "child"
    THEN Return(r, ERROR_STATUS)
    ELSE [r EXCEPT !.out = "sema", !.tid = child_tid, !.load = "loading"]

(* syscall.c: syscall_exec after sema_down *)
syscall_exec_loaded(p, r) ==
    IF r.load # "ok" THEN Return(r, ERROR_STATUS) ELSE Return(r, r.tid)

(* part_002: exec_user_program once process_execute has returned *)
exec_user_program_created(p, r, child_tid) ==
    IF child_tid = TID_ERROR THEN Return(r, child_tid)
    ELSE Return([r EXCEPT !.tid = child_tid, !.load = "loading"], child_tid)

(* What the handler does with the collaborator's result v *)
CollabDone(p, r, v) ==
    IF r.prim = "process_execute"
    THEN IF impl = "syscall_c" THEN syscall_exec_created(p, r, v)
         ELSE exec_user_program_created(p, r, v)
    ELSE Return(r, v)

-----------------------------------------------------------------------------
(* What a user program can put on its stack before int 0x30 *)

In(esp, num, w1, w2, w3, len) ==
    [esp |-> esp, num |-> num, w1 |-> w1, w2 |-> w2, w3 |-> w3, len |-> len]

Fds == 0..(FirstFd + MaxOpens)
Statuses == {0, 1}
UnknownNums == {-1, 13}

TrapInputs(Esps, Ptrs, FdSet, Sizes, Lens) ==
    {In(e, n, 0, 0, 0, 0) : e \in Esps, n \in {SYS_HALT} \cup UnknownNums}
    \cup {In(e, SYS_EXIT, st, 0, 0, 0) : e \in Esps, st \in Statuses}
    \cup {In(e, SYS_WAIT, t, 0, 0, 0) : e \in Esps, t \in WaitPids}
    \cup {In(e, n, a, 0, 0, l) :
            e \in Esps, n \in {SYS_EXEC, SYS_CREATE, SYS_REMOVE, SYS_OPEN},
            a \in Ptrs, l \in Lens}
    \cup {In(e, n, fd, 0, 0, 0) :
            e \in Esps, n \in {SYS_FILESIZE, SYS_SEEK, SYS_TELL, SYS_CLOSE},
            fd \in FdSet}
    \cup {In(e, n, fd, a, sz, 0) :
            e \in Esps, n \in {SYS_READ, SYS_WRITE}, fd \in FdSet,
            a \in Ptrs, sz \in Sizes}

Inputs == TrapInputs(Addrs, Addrs, Fds, 0..MaxSize, 0..MaxStrLen)

(* Two processes side by side: a mapped stack, file syscalls and exit, a   *)
(* good name or buffer, and for open a null name as well                   *)
ConcFds == FirstFd..(FirstFd + ConcOpens)

ConcInputs ==
    {In(PGSIZE, SYS_EXIT, 0, 0, 0, 0)}
    \cup {In(PGSIZE, n, PHYS_BASE - 1, 0, 0, 0) :
            n \in {SYS_CREATE, SYS_REMOVE, SYS_OPEN}}
    \cup {In(PGSIZE, SYS_OPEN, NULL, 0, 0, 0)}
    \cup {In(PGSIZE, n, fd, 0, 0, 0) :
            n \in {SYS_FILESIZE, SYS_SEEK, SYS_TELL, SYS_CLOSE}, fd \in ConcFds}
    \cup {In(PGSIZE, n, fd, PHYS_BASE - 1, 1, 0) :
            n \in {SYS_READ, SYS_WRITE}, fd \in ConcFds}

-----------------------------------------------------------------------------
(* Actions *)

Halted == \E q \in Procs : pc[q] = "off"

(* The ids in p's descriptor table *)
Ids(p) == {open_fd_list[p][i].fd : i \in 1..Len(open_fd_list[p])}

PcAfter(r) ==
    CASE r.out = "ret" -> "ret"
      [] r.out = "exit" -> "exited"
      [] r.out = "fault" -> "kfault"
      [] r.out = "lock" -> "wait"
      [] r.out = "nolock" -> "locked"
      [] r.out = "collab" -> "collab"
      [] r.out = "sema" -> "sema"
      [] r.out = "halt" -> "off"

(* The dispatcher has run up to the end of the trap, to process exit, or   *)
(* to the handler's first blocking call                                    *)
Dispatched(p, r) ==
    /\ cur' = [cur EXCEPT ![p] = [Finish(r) EXCEPT
                                      !.ids0 = Ids(p), !.nfd0 = next_fd[p],
                                      !.kids0 = {t \in ChildTids : Waitable(p, t)}]]
    /\ pc' = [pc EXCEPT ![p] = PcAfter(r)]
    /\ exit_status' = IF r.out = "exit"
                      THEN [exit_status EXCEPT ![thread_current(p)] = r.status]
                      ELSE exit_status
    /\ next_fd' = IF r.alloc
                  THEN [next_fd EXCEPT ![thread_current(p)] = @ + 1] ELSE next_fd
    /\ UNCHANGED <<child_list, con, impl, pagedir, open_fd_list, lock, inFs, openFiles,
                   last_id>>

(* The inputs a process may trap with: open is cut off after cap ids *)
CanTrap(p, in, cap) == in.num = SYS_OPEN => next_fd[p] < FirstFd + cap

(* int 0x30 under userprog/syscall.c *)
SyscallHandler(p, Ins, cap) ==
    /\ impl = "syscall_c"
    /\ ~Halted
    /\ pc[p] = "user"
    /\ \E in \in Ins :
         /\ CanTrap(p, in, cap)
         /\ Dispatched(p, syscall_handler(p, in))
    /\ UNCHANGED e2e

(* int 0x30 under the second layer *)
HandleSyscall(p, Ins, cap) ==
    /\ impl = "part_002"
    /\ ~Halted
    /\ pc[p] = "user"
    /\ \E in \in Ins :
         /\ CanTrap(p, in, cap)
         /\ Dispatched(p, handle_syscall(p, in))
    /\ UNCHANGED e2e

(* lock_acquire returns: the lock was free and is now the caller's *)
lock_acquire(p) ==
    /\ lock = 0
    /\ lock' = p

lock_release(p) == lock' = 0

LockAcquire(p) ==
    /\ ~Halted
    /\ pc[p] = "wait"
    /\ lock_acquire(p)
    /\ pc' = [pc EXCEPT ![p] = "locked"]
    /\ UNCHANGED <<e2e, child_list, con, impl, pagedir, cur, open_fd_list, next_fd, exit_status,
                   inFs, openFiles, last_id>>

(* The handler calls its filesystem primitive *)
FsEnter(p) ==
    /\ ~Halted
    /\ pc[p] = "locked"
    /\ pc' = [pc EXCEPT ![p] = "infs"]
    /\ inFs' = inFs \cup {p}
    /\ cur' = [cur EXCEPT ![p].ops = @ \cup {cur[p].prim}]
    /\ UNCHANGED <<e2e, child_list, con, impl, pagedir, open_fd_list, next_fd, exit_status, lock,
                   openFiles, last_id>>

(* The primitive runs and returns, or faults on user memory *)
FsReturn(p, res) ==
    LET r == PrimAccess(p, cur[p], res) IN
    /\ inFs' = inFs \ {p}
    /\ IF r.out = "fault"
       THEN /\ cur' = [cur EXCEPT ![p] = r]
            /\ pc' = [pc EXCEPT ![p] = "kfault"]
            /\ UNCHANGED openFiles
       ELSE /\ cur' = [cur EXCEPT ![p] = [r EXCEPT !.out = "lock", !.res = res]]
            /\ pc' = [pc EXCEPT ![p] = "fsdone"]
            /\ openFiles' = OpenFilesAfter(cur[p], res)
    /\ UNCHANGED <<child_list, con, impl, pagedir, open_fd_list, next_fd, exit_status, lock,
                   last_id>>

(* Any filesystem: the primitive may return whatever its interface allows *)
FsLeave(p) ==
    /\ ~Halted
    /\ pc[p] = "infs"
    /\ \E res \in PrimResults(cur[p]) : FsReturn(p, res)
    /\ UNCHANGED e2e

(* lock_release, the rest of the handler, and the return to user mode *)
LockRelease(p) ==
    /\ ~Halted
    /\ pc[p] = "fsdone"
    /\ IF lock = p /\ ReleasesLock(p, cur[p])
       THEN lock_release(p) ELSE UNCHANGED lock
    /\ open_fd_list' = [open_fd_list EXCEPT
                           ![thread_current(p)] = ListAfter(p, cur[p])]
    /\ next_fd' = [next_fd EXCEPT ![thread_current(p)] = NextFdAfter(p, cur[p])]
    /\ cur' = [cur EXCEPT ![p] = Finish(HandlerResult(p, cur[p]))]
    /\ last_id' = IF cur[p].prim = "filesys_open" /\ cur[p].res # NoFile
                  THEN [last_id EXCEPT ![p] = HandlerResult(p, cur[p]).val]
                  ELSE last_id
    /\ pc' = [pc EXCEPT ![p] = "ret"]
    /\ UNCHANGED <<e2e, child_list, con, impl, pagedir, exit_status, inFs, openFiles>>

(* process_execute / process_wait return to the handler *)
CollabReturn(p) ==
    /\ ~Halted
    /\ pc[p] = "collab"
    /\ \E v \in CollabResults(p, cur[p]) :
         LET r == PrimAccess(p, [cur[p] EXCEPT !.ops = @ \cup {cur[p].prim}], v) IN
         IF r.out = "fault"
         THEN /\ cur' = [cur EXCEPT ![p] = r]
              /\ pc' = [pc EXCEPT ![p] = "kfault"]
              /\ UNCHANGED child_list
         ELSE /\ cur' = [cur EXCEPT ![p] = Finish(CollabDone(p, r, v))]
              /\ pc' = [pc EXCEPT ![p] = PcAfter(CollabDone(p, r, v))]
              /\ child_list' = [child_list EXCEPT ![p] = ChildListAfter(p, cur[p], v)]
    /\ UNCHANGED <<e2e, con, impl, pagedir, open_fd_list, next_fd, exit_status, lock,
                   inFs, openFiles, last_id>>

(* The child thread created by the exec under way finishes loading, well   *)
(* or not, records it and does sema_up(&init_sema)                         *)
ChildLoad(p) ==
    /\ ~Halted
    /\ cur[p].load = "loading"
    /\ \E ok \in BOOLEAN :
         cur' = [cur EXCEPT ![p].load = IF ok THEN "ok" ELSE "fail",
                            ![p].init_sema = @ + 1]
    /\ UNCHANGED <<e2e, child_list, con, impl, pagedir, pc, open_fd_list, next_fd,
                   exit_status, lock, inFs, openFiles, last_id>>

(* sema_down(&childThread->init_sema) returns and syscall_exec ends *)
SemaDown(p) ==
    /\ ~Halted
    /\ pc[p] = "sema"
    /\ cur[p].init_sema > 0
    /\ LET r == [cur[p] EXCEPT !.out = "go", !.init_sema = @ - 1] IN
       cur' = [cur EXCEPT ![p] = Finish(syscall_exec_loaded(p, r))]
    /\ pc' = [pc EXCEPT ![p] = "ret"]
    /\ UNCHANGED <<e2e, child_list, con, impl, pagedir, open_fd_list, next_fd,
                   exit_status, lock, inFs, openFiles, last_id>>

(* The user program runs on until its next trap *)
Resume(p) ==
    /\ ~Halted
    /\ pc[p] = "ret"
    /\ pc' = [pc EXCEPT ![p] = "user"]
    /\ cur' = [cur EXCEPT ![p] = Idle]
    /\ UNCHANGED <<e2e, child_list, con, impl, pagedir, open_fd_list, next_fd, exit_status, lock,
                   inFs, openFiles, last_id>>

(* The states of a process from thread_exit on *)
ExitPcs == {"exited", "cleanup", "closing", "dead"}

(* process_exit, run by thread_exit: while the descriptor table has an     *)
(* entry, take the filesystem lock and enter file_close for the first one  *)
ProcessExitLock(p) ==
    /\ ~Halted
    /\ pc[p] \in {"exited", "cleanup"}
    /\ open_fd_list[thread_current(p)] # <<>>
    /\ lock_acquire(p)
    /\ inFs' = inFs \cup {p}
    /\ pc' = [pc EXCEPT ![p] = "closing"]
    /\ UNCHANGED <<e2e, child_list, con, impl, pagedir, cur, open_fd_list, next_fd, exit_status,
                   openFiles, last_id>>

(* file_close returns: the entry is removed and the lock released *)
ProcessExitClose(p) ==
    /\ ~Halted
    /\ pc[p] = "closing"
    /\ openFiles' = openFiles \ {Head(open_fd_list[thread_current(p)]).file}
    /\ open_fd_list' = [open_fd_list EXCEPT ![thread_current(p)] = Tail(@)]
    /\ inFs' = inFs \ {p}
    /\ lock_release(p)
    /\ pc' = [pc EXCEPT ![p] = "cleanup"]
    /\ UNCHANGED <<e2e, child_list, con, impl, pagedir, cur, next_fd, exit_status, last_id>>

(* The table is empty: the process ceases execution *)
ProcessExit(p) ==
    /\ ~Halted
    /\ pc[p] \in {"exited", "cleanup"}
    /\ open_fd_list[thread_current(p)] = <<>>
    /\ pc' = [pc EXCEPT ![p] = "dead"]
    /\ UNCHANGED <<e2e, child_list, con, impl, pagedir, cur, open_fd_list, next_fd, exit_status,
                   lock, inFs, openFiles, last_id>>

-----------------------------------------------------------------------------
(* A write to descriptor 1 once its buffer has been accepted: the calls of *)
(* putbuf, each noted as <<offset into the buffer, length>>                *)

ConsoleCall(n) ==
    [pc |-> "call", n |-> n, size |-> n, off |-> 0, bytes_written |-> 0,
     pieces |-> <<>>, ret |-> 0]

NoConsole == [ConsoleCall(0) EXCEPT !.pc = "none"]

putbuf(c, len) == [c EXCEPT !.pieces = Append(@, <<c.off, len>>)]

(* syscall.c: syscall_write, the branch fd == CONSOLE_OUTPUT *)
syscall_write_console(c) ==
    LET d == putbuf(c, c.size) IN
    [d EXCEPT !.bytes_written = c.size, !.ret = c.size, !.pc = "done"]

(* part_002: write_user_program, the branch fd == 1 *)
RECURSIVE write_user_program_loop(_)
write_user_program_loop(c) ==
    IF c.size > BUF_MAX
    THEN write_user_program_loop(
             [putbuf(c, BUF_MAX) EXCEPT !.off = @ + BUF_MAX,
                                        !.size = @ - BUF_MAX,
                                        !.bytes_written = @ + BUF_MAX])
    ELSE c

write_user_program_console(c) ==
    LET d == write_user_program_loop(c)
        e == putbuf(d, d.size)
    IN [e EXCEPT !.bytes_written = @ + d.size,
                 !.ret = d.bytes_written + d.size, !.pc = "done"]

SyscallWriteConsole ==
    /\ impl = "syscall_c"
    /\ con.pc = "call"
    /\ con' = syscall_write_console(con)
    /\ UNCHANGED <<e2e, impl, pagedir, pc, cur, open_fd_list, next_fd, exit_status,
                   lock, inFs, openFiles, last_id, child_list>>

WriteUserProgramConsole ==
    /\ impl = "part_002"
    /\ con.pc = "call"
    /\ con' = write_user_program_console(con)
    /\ UNCHANGED <<e2e, impl, pagedir, pc, cur, open_fd_list, next_fd, exit_status,
                   lock, inFs, openFiles, last_id, child_list>>

-----------------------------------------------------------------------------
(* Specifications *)

(* No scripted run: nothing known about the files or the data bytes *)
Hi == <<"h", "i">>

NoRun ==
    [step |-> 0, x |-> <<>>, pos |-> [h \in Handles |-> 0],
     mem |-> [a \in Addrs |-> "."], name |-> 0, src |-> 0, dst |-> 0]

InitCommon ==
    /\ impl \in Impls
    /\ cur = [p \in Procs |-> Idle]
    /\ open_fd_list = [p \in Procs |-> <<>>]
    /\ next_fd = [p \in Procs |-> FirstFd]
    /\ exit_status = [p \in Procs |-> 0]
    /\ lock = 0
    /\ inFs = {}
    /\ openFiles = {}
    /\ last_id = [p \in Procs |-> 0]
    /\ child_list = [p \in Procs |-> [t \in ChildTids |-> "none"]]

(* One user process, any page table *)
Init ==
    /\ InitCommon
    /\ con = NoConsole
    /\ e2e = NoRun
    /\ \E m \in SUBSET UserPages : pagedir = [p \in Procs |-> m]
    /\ pc = [p \in Procs |-> IF p = 1 THEN "user" ELSE "none"]

Next ==
    \E p \in Procs :
        \/ SyscallHandler(p, Inputs, MaxOpens)
        \/ HandleSyscall(p, Inputs, MaxOpens)
        \/ LockAcquire(p)
        \/ FsEnter(p)
        \/ FsLeave(p)
        \/ LockRelease(p)
        \/ CollabReturn(p)
        \/ ChildLoad(p)
        \/ SemaDown(p)
        \/ Resume(p)
        \/ ProcessExitLock(p)
        \/ ProcessExitClose(p)
        \/ ProcessExit(p)

Spec == Init /\ [][Next]_vars

(* One process that calls exec, wait and exit: the scheduler runs every    *)
(* thread that can run, so process_execute returns, the child gets to its  *)
(* sema_up and the parent to the end of its sema_down                      *)
ExecInputs ==
    {in \in Inputs : in.num \in {SYS_EXEC, SYS_WAIT, SYS_EXIT}}

NextExec ==
    \E p \in Procs :
        \/ SyscallHandler(p, ExecInputs, MaxOpens)
        \/ HandleSyscall(p, ExecInputs, MaxOpens)
        \/ CollabReturn(p)
        \/ ChildLoad(p)
        \/ SemaDown(p)
        \/ Resume(p)
        \/ ProcessExit(p)

FairExec ==
    \A p \in Procs :
        /\ WF_vars(CollabReturn(p))
        /\ WF_vars(ChildLoad(p))
        /\ WF_vars(SemaDown(p))

SpecExec == Init /\ [][NextExec]_vars /\ FairExec

(* Two user processes, all user pages mapped *)
InitConc ==
    /\ InitCommon
    /\ con = NoConsole
    /\ e2e = NoRun
    /\ pagedir = [p \in Procs |-> UserPages]
    /\ pc = [p \in Procs |-> "user"]

NextConc ==
    \E p \in Procs :
        \/ SyscallHandler(p, ConcInputs, ConcOpens)
        \/ HandleSyscall(p, ConcInputs, ConcOpens)
        \/ LockAcquire(p)
        \/ FsEnter(p)
        \/ FsLeave(p)
        \/ LockRelease(p)
        \/ Resume(p)
        \/ ProcessExitLock(p)
        \/ ProcessExitClose(p)
        \/ ProcessExit(p)

SpecConc == InitConc /\ [][NextConc]_vars

(* Two processes under a fair scheduler, with one or both user pages       *)
(* mapped and, besides the calls above, an open whose name runs on into    *)
(* the page after the one it starts in.  Waiters of the lock are served in *)
(* turn, and a thread that can run is run                                  *)
LockInputs == ConcInputs \cup {In(PGSIZE, SYS_OPEN, (2 * PGSIZE) - 1, 0, 0, 1)}

InitLock ==
    /\ InitCommon
    /\ con = NoConsole
    /\ e2e = NoRun
    /\ \E m \in {{1}, UserPages} : pagedir = [p \in Procs |-> m]
    /\ pc = [p \in Procs |-> "user"]

NextLock ==
    \E p \in Procs :
        \/ SyscallHandler(p, LockInputs, ConcOpens)
        \/ HandleSyscall(p, LockInputs, ConcOpens)
        \/ LockAcquire(p)
        \/ FsEnter(p)
        \/ FsLeave(p)
        \/ LockRelease(p)
        \/ Resume(p)
        \/ ProcessExitLock(p)
        \/ ProcessExitClose(p)
        \/ ProcessExit(p)

FairLock ==
    \A p \in Procs :
        /\ SF_vars(LockAcquire(p))
        /\ WF_vars(FsEnter(p))
        /\ WF_vars(FsLeave(p))
        /\ WF_vars(LockRelease(p))
        /\ SF_vars(ProcessExitLock(p))
        /\ WF_vars(ProcessExitClose(p))

SpecLock == InitLock /\ [][NextLock]_vars /\ FairLock

(* Writes to the console of every size up to MaxWrite *)
InitConsole ==
    /\ InitCommon
    /\ pagedir = [p \in Procs |-> UserPages]
    /\ pc = [p \in Procs |-> "none"]
    /\ \E n \in 0..MaxWrite : con = ConsoleCall(n)
    /\ e2e = NoRun

NextConsole == SyscallWriteConsole \/ WriteUserProgramConsole

SpecConsole == InitConsole /\ [][NextConsole]_vars

-----------------------------------------------------------------------------
(* A scripted run of one process against a filesystem that keeps what is   *)
(* written: file "x" is x, pos[h] the position of handle h, mem the data   *)
(* bytes of user memory (stack words are kept apart, in cur[p].in)         *)

(* "hi" lies at src, the name "x" at name, buf is dst *)
Run(len, name, src, dst) ==
    [NoRun EXCEPT !.x = [i \in 1..len |-> "."],
                  !.mem = [a \in Addrs |-> IF a = src THEN Hi[1]
                                           ELSE IF a = src + 1 THEN Hi[2]
                                           ELSE "."],
                  !.name = name, !.src = src, !.dst = dst]

(* open("x"), write(2,"hi",2), seek(2,0), read(2,buf,2), close(2), tell(2) *)
Script(c) ==
    <<In(PGSIZE, SYS_OPEN, c.name, 0, 0, 1),
      In(PGSIZE, SYS_WRITE, 2, c.src, Len(Hi), 0),
      In(PGSIZE, SYS_SEEK, 2, 0, 0, 0),
      In(PGSIZE, SYS_READ, 2, c.dst, Len(Hi), 0),
      In(PGSIZE, SYS_CLOSE, 2, 0, 0, 0),
      In(PGSIZE, SYS_TELL, 2, 0, 0, 0)>>

(* The bytes file_read / file_write move: up to the end of the file *)
Moved(c, h, size) ==
    IF c.pos[h] >= Len(c.x) THEN 0
    ELSE IF size <= Len(c.x) - c.pos[h] THEN size ELSE Len(c.x) - c.pos[h]

(* What the primitive of trap r returns in this filesystem; the primitive  *)
(* is given the handler's own arguments                                    *)
FileResult(c, r) ==
    CASE r.prim = "filesys_open" -> Min(FreeHandles)
      [] r.prim \in {"file_read", "file_write"} -> Moved(c, r.file, r.hargs[3])
      [] r.prim = "file_tell" -> c.pos[r.file]
      [] r.prim = "file_length" -> Len(c.x)
      [] OTHER -> 0

file_write(c, h, buffer, size) ==
    LET n == Moved(c, h, size) IN
    [c EXCEPT !.x = [i \in 1..Len(c.x) |->
                        IF i > c.pos[h] /\ i <= c.pos[h] + n
                        THEN c.mem[buffer + i - c.pos[h] - 1] ELSE c.x[i]],
              !.pos[h] = @ + n]

file_read(c, h, buffer, size) ==
    LET n == Moved(c, h, size) IN
    [c EXCEPT !.mem = [a \in Addrs |->
                          IF a >= buffer /\ a < buffer + n
                          THEN c.x[c.pos[h] + (a - buffer) + 1] ELSE c.mem[a]],
              !.pos[h] = @ + n]

file_seek(c, h, new_pos) == [c EXCEPT !.pos[h] = new_pos]

FileAfter(c, r) ==
    CASE r.prim = "filesys_open" -> [c EXCEPT !.pos[Min(FreeHandles)] = 0]
      [] r.prim = "file_write" -> file_write(c, r.file, r.hargs[2], r.hargs[3])
      [] r.prim = "file_read" -> file_read(c, r.file, r.hargs[2], r.hargs[3])
      [] r.prim = "file_seek" -> file_seek(c, r.file, r.hargs[2])
      [] OTHER -> c

(* The next call of the script traps, under either layer *)
ScriptSyscallHandler(p) ==
    /\ impl = "syscall_c"
    /\ ~Halted
    /\ pc[p] = "user"
    /\ e2e.step < Len(Script(e2e))
    /\ Dispatched(p, syscall_handler(p, Script(e2e)[e2e.step + 1]))
    /\ e2e' = [e2e EXCEPT !.step = @ + 1]

ScriptHandleSyscall(p) ==
    /\ impl = "part_002"
    /\ ~Halted
    /\ pc[p] = "user"
    /\ e2e.step < Len(Script(e2e))
    /\ Dispatched(p, handle_syscall(p, Script(e2e)[e2e.step + 1]))
    /\ e2e' = [e2e EXCEPT !.step = @ + 1]

(* The primitive runs in the filesystem that holds file "x" *)
FsLeaveFile(p) ==
    /\ ~Halted
    /\ pc[p] = "infs"
    /\ FileResult(e2e, cur[p]) \in PrimResults(cur[p])
    /\ FsReturn(p, FileResult(e2e, cur[p]))
    /\ e2e' = FileAfter(e2e, cur[p])

(* The places of the name and the two buffers in the mapped user pages *)
DataAddrs == {a \in Addrs : a >= PGSIZE /\ a + 1 < PHYS_BASE}

InitE2E ==
    /\ InitCommon
    /\ con = NoConsole
    /\ pagedir = [p \in Procs |-> UserPages]
    /\ pc = [p \in Procs |-> IF p = 1 THEN "user" ELSE "none"]
    /\ \E len \in Len(Hi)..MaxFileLen, name, src, dst \in DataAddrs :
          /\ src + 1 < dst \/ dst + 1 < src
          /\ e2e = Run(len, name, src, dst)

NextE2E ==
    \E p \in Procs :
        \/ ScriptSyscallHandler(p)
        \/ ScriptHandleSyscall(p)
        \/ LockAcquire(p)
        \/ FsEnter(p)
        \/ FsLeaveFile(p)
        \/ LockRelease(p)
        \/ Resume(p)

SpecE2E == InitE2E /\ [][NextE2E]_vars


-----------------------------------------------------------------------------
(* Properties *)

(* A pointer is valid iff it is non-null, below the kernel/user split and  *)
(* mapped in the process's page table                                      *)
ValidAddr(p, a) == a # 0 /\ a < PHYS_BASE /\ (a \div PGSIZE) \in pagedir[p]

(* A trap of p is being served or has ended, and cur[p] describes it *)
Active(p) == pc[p] \notin {"user", "none"}

Terminated(p) == pc[p] \in ExitPcs /\ exit_status[p] = -1

BufRange(p) == cur[p].ptr..(cur[p].ptr + cur[p].size - 1)

StringSyscalls == {SYS_EXEC, SYS_CREATE, SYS_REMOVE, SYS_OPEN}

C1_InvalidPointer(p) ==
    \/ ~ValidAddr(p, cur[p].esp)
    \/ "ptr" \in cur[p].args /\ ~ValidAddr(p, cur[p].ptr)

(* C1: whenever the stack pointer or a pointer argument of a syscall is an *)
(* invalid address (null, kernel, or unmapped), the process is terminated  *)
(* with status -1, eax is not written, and no filesystem, console,         *)
(* keyboard or descriptor-table operation of that syscall has happened.    *)
C1_InvalidPointerTerminates ==
    \A p \in Procs :
        Active(p) /\ C1_InvalidPointer(p) =>
            /\ Terminated(p)
            /\ ~cur[p].eaxW
            /\ cur[p].ops = {}
            /\ ~cur[p].alloc

C2_BadBuffer(p) ==
    /\ Active(p)
    /\ cur[p].numRead /\ cur[p].num \in {SYS_READ, SYS_WRITE}
    /\ {"ptr", "size"} \subseteq cur[p].args
    /\ cur[p].size > 0
    /\ \E a \in BufRange(p) : ~ValidAddr(p, a)

(* C2: a read or write whose buffer [addr, addr+n), n > 0, holds an        *)
(* invalid address is terminated with status -1 before any byte of the     *)
(* buffer is read or written, also when only a later byte is invalid.      *)
C2_BadBufferTerminates ==
    \A p \in Procs :
        C2_BadBuffer(p) =>
            /\ Terminated(p)
            /\ cur[p].data = {}
            /\ cur[p].ops = {}

C3_BadOffsets(p) ==
    {k \in 0..cur[p].len : ~ValidAddr(p, cur[p].ptr + k)}

C3_StringCall(p) ==
    /\ Active(p)
    /\ cur[p].numRead /\ cur[p].num \in StringSyscalls
    /\ "ptr" \in cur[p].args

(* C3: a string argument is never read at an address that has not been    *)
(* validated; if its byte at offset k is at an invalid address and no      *)
(* terminator precedes it, the process is terminated with status -1 and no *)
(* byte at offset >= k is read.                                            *)
C3_StringReadOnlyAfterValidation ==
    \A p \in Procs :
        C3_StringCall(p) =>
            /\ cur[p].data \subseteq cur[p].checked
            /\ C3_BadOffsets(p) # {} =>
                 /\ Terminated(p)
                 /\ \A a \in cur[p].data : a < cur[p].ptr + Min(C3_BadOffsets(p))

(* C4: the dispatcher validates the word at esp and the word above it      *)
(* before it reads the syscall number; if either is invalid the process is *)
(* terminated with status -1 and the number is never read.                 *)
C4_BothWordsValidatedFirst ==
    \A p \in Procs :
        Active(p) =>
            /\ cur[p].numRead => {cur[p].esp, cur[p].esp + 1} \subseteq cur[p].checked
            /\ (~ValidAddr(p, cur[p].esp) \/ ~ValidAddr(p, cur[p].esp + 1)) =>
                 Terminated(p) /\ ~cur[p].numRead

C5_TableIds(p) ==
    LET l == open_fd_list[p] IN
    /\ \A i, j \in 1..Len(l) : l[i].fd = l[j].fd => i = j
    /\ \A i \in 1..Len(l) : l[i].fd \notin {0, 1} /\ l[i].fd <= last_id[p]

C5_OpenReturns(p) ==
    /\ pc[p] = "fsdone" /\ pc'[p] = "ret"
    /\ cur[p].prim = "filesys_open" /\ cur[p].res # NoFile

(* C5: every successful open returns an id greater than every id returned *)
(* to the process before and different from 0 and 1; at every state the    *)
(* ids in a process's table are pairwise different and none is 0 or 1.     *)
C5_IdsIncreaseNoReuse ==
    [][\A p \in Procs :
          /\ C5_TableIds(p)'
          /\ C5_OpenReturns(p) =>
               /\ cur'[p].eaxW
               /\ cur'[p].eax > last_id[p]
               /\ cur'[p].eax \notin {0, 1}
               /\ cur'[p].eax = last_id'[p]
               /\ cur'[p].eax \in Ids(p)'
               /\ \A x \in Ids(p) : x < cur'[p].eax]_vars

(* An id was closed and a later open returned a new one *)
C5_Witness ==
    \E p \in Procs :
        /\ pc[p] = "ret" /\ cur[p].num = SYS_OPEN /\ cur[p].eaxW
        /\ cur[p].eax = FirstFd + 1
        /\ Ids(p) = {FirstFd + 1}

(* The words of the argument area that the call decodes are all readable *)
StackMapped(p) == \A i \in 0..3 : ~Faults(p, cur[p].esp + i)

(* The fd argument of the trap was not an id of the table when it began *)
AbsentFd(p) == "fd" \in cur[p].args /\ cur[p].fd \notin cur[p].ids0

TableUntouched(p) == Ids(p) = cur[p].ids0 /\ next_fd[p] = cur[p].nfd0

C6_Call(p) ==
    /\ Active(p) /\ StackMapped(p)
    /\ cur[p].numRead /\ cur[p].num \in {SYS_READ, SYS_WRITE}
    /\ AbsentFd(p) /\ cur[p].fd \notin {0, 1}
    /\ {"ptr", "size"} \subseteq cur[p].args
    /\ ValidAddr(p, cur[p].ptr)
    /\ \A a \in BufRange(p) : ValidAddr(p, a)

(* C6: a read or write with a valid buffer on an id other than 0 and 1     *)
(* that is not in the caller's table returns -1 (read) or 0 (write),       *)
(* without terminating the process, calling a filesystem primitive or      *)
(* changing the table (stated for traps whose argument words are mapped).  *)
C6_AbsentFdReadWrite ==
    \A p \in Procs :
        C6_Call(p) =>
            /\ pc[p] = "ret"
            /\ cur[p].eaxW
            /\ cur[p].eax = (IF cur[p].num = SYS_READ THEN -1 ELSE 0)
            /\ cur[p].ops = {}
            /\ TableUntouched(p)

C7_Call(p) ==
    /\ Active(p) /\ StackMapped(p)
    /\ cur[p].numRead
    /\ cur[p].num \in {SYS_FILESIZE, SYS_TELL, SYS_SEEK, SYS_CLOSE}
    /\ AbsentFd(p)

(* C7: on an id that is not in the caller's table filesize and tell return *)
(* 0 and seek and close do nothing; none of them terminates the process,   *)
(* acquires the filesystem lock, calls a filesystem primitive or changes   *)
(* the table (stated for traps whose argument words are mapped).           *)
C7_AbsentFdBenign ==
    \A p \in Procs :
        C7_Call(p) =>
            /\ pc[p] = "ret"
            /\ lock # p
            /\ cur[p].ops = {}
            /\ TableUntouched(p)
            /\ IF cur[p].num \in {SYS_FILESIZE, SYS_TELL}
               THEN cur[p].eaxW /\ cur[p].eax = 0
               ELSE ~cur[p].eaxW

(* C8: under any interleaving of two processes at most one thread is       *)
(* inside a filesystem primitive, and a thread that is inside one holds    *)
(* the global filesystem lock.                                             *)
C8_FsMutualExclusion ==
    /\ Cardinality(inFs) <= 1
    /\ \A p \in Procs :
          /\ p \in inFs => lock = p
          /\ pc[p] \in {"infs", "closing"} <=> p \in inFs
          /\ pc[p] \in {"infs", "fsdone"} => cur[p].prim \in FsPrims /\ lock = p

(* One process is inside a primitive while the other waits for the lock *)
C8_Witness ==
    \E p, q \in Procs :
        /\ p # q
        /\ p \in inFs /\ lock = p
        /\ pc[q] = "wait"

Unlocked == {"user", "wait", "collab", "sema", "ret", "exited", "off"}

C9_Hold(p) ==
    /\ pc'[p] \in Unlocked => lock' # p
    /\ lock # p /\ lock' = p => cur[p].ops \cap FsPrims = {}
    /\ lock = p /\ lock' = p =>
          /\ cur'[p].checked = cur[p].checked
          /\ pc'[p] # "exited"
          /\ Cardinality(cur'[p].ops \cap FsPrims) <= 1
    /\ lock = p /\ lock' # p =>
          /\ pc'[p] = "ret"
          /\ cur[p].ops \cap FsPrims = {cur[p].prim}
          /\ cur'[p].ops = cur[p].ops

C10_OwnStep(q) ==
    (open_fd_list'[q] # open_fd_list[q] \/ next_fd'[q] # next_fd[q])
        => /\ pc'[q] # pc[q]
           /\ \A o \in Procs \ {q} : pc'[o] = pc[o]

C10_AsAlone(q) ==
    /\ pc[q] \in {"wait", "locked", "infs", "fsdone"} =>
          /\ Ids(q) = cur[q].ids0
          /\ next_fd[q] = cur[q].nfd0 + (IF cur[q].alloc THEN 1 ELSE 0)
    /\ \A i \in 1..Len(open_fd_list[q]) :
          /\ open_fd_list[q][i].fd < next_fd[q]
          /\ open_fd_list[q][i].fd >= FirstFd
    /\ pc[q] = "ret" /\ cur[q].num = SYS_OPEN /\ cur[q].eax # -1 =>
          /\ cur[q].eax \in Ids(q) \ cur[q].ids0
          /\ cur[q].eax = (IF impl = "syscall_c" THEN cur[q].nfd0 ELSE cur[q].newfd)
          /\ next_fd[q] = cur[q].nfd0 + 1

(* C10: under any interleaving of two processes a process's descriptor     *)
(* table and next-descriptor counter change only in that process's own     *)
(* steps, and while its syscall is under way they are what it found at the *)
(* trap, however the other process's calls interleave.                     *)
C10_TableOwnedByProcess ==
    [][\A q \in Procs : C10_OwnStep(q) /\ C10_AsAlone(q)']_vars

(* Each process has its own entry with the same id, the second one just  *)
(* returned by open while the first process waits for the lock           *)
C10_Witness ==
    \E p, q \in Procs :
        /\ p # q
        /\ FirstFd \in Ids(p)
        /\ pc[p] = "wait"
        /\ pc[q] = "ret" /\ cur[q].num = SYS_OPEN /\ cur[q].eax = FirstFd
        /\ FirstFd \in Ids(q)

RECURSIVE SumLen(_)
SumLen(ps) == IF ps = <<>> THEN 0 ELSE ps[1][2] + SumLen(Tail(ps))

(* C11: a write of n bytes to descriptor 1 hands the bytes to the console  *)
(* in order, in pieces of at most 200 bytes whose lengths add up to n, and *)
(* returns n, for every n from 0 on, multiples of 200 included.            *)
C11_ConsoleChunks ==
    con.pc = "done" =>
        /\ con.ret = con.n
        /\ SumLen(con.pieces) = con.n
        /\ \A i \in 1..Len(con.pieces) :
              /\ con.pieces[i][2] <= BUF_MAX
              /\ con.pieces[i][1] = SumLen(SubSeq(con.pieces, 1, i - 1))

C12_ExecCall(p) ==
    /\ pc[p] = "ret"
    /\ cur[p].numRead /\ cur[p].num = SYS_EXEC /\ "ptr" \in cur[p].args
    /\ C3_BadOffsets(p) = {}

(* C12: exec with a valid command line returns only after the child that   *)
(* was created has finished loading and signalled it, with -1 when the     *)
(* load failed (or no child could be created) and the child's id when it   *)
(* succeeded.                                                              *)
C12_ExecWaitsForLoad ==
    \A p \in Procs :
        C12_ExecCall(p) =>
            /\ cur[p].eaxW
            /\ cur[p].tid # 0 => cur[p].load \in {"ok", "fail"}
            /\ cur[p].eax = (IF cur[p].tid = 0 \/ cur[p].load = "fail"
                             THEN -1 ELSE cur[p].tid)

(* C13: wait calls process_wait with the pid found in argument word 1 and  *)
(* stores its result in eax, so that a pid that is not a waitable child of *)
(* the caller gives -1 whatever other children the caller has.             *)
C13_WaitPassesPid ==
    \A p \in Procs :
        Active(p) /\ cur[p].numRead /\ cur[p].num = SYS_WAIT =>
            /\ pc[p] \in {"collab", "ret"}
            /\ cur[p].prim = "process_wait"
            /\ cur[p].pid = cur[p].in.w1
            /\ pc[p] = "ret" =>
                  /\ cur[p].eaxW /\ cur[p].eax = cur[p].val
                  /\ cur[p].in.w1 \notin cur[p].kids0 => cur[p].eax = -1

HandlerOf ==
    [n \in 0..12 |->
        CASE n = 0 -> "halt" [] n = 1 -> "exit" [] n = 2 -> "exec"
          [] n = 3 -> "wait" [] n = 4 -> "create" [] n = 5 -> "remove"
          [] n = 6 -> "open" [] n = 7 -> "filesize" [] n = 8 -> "read"
          [] n = 9 -> "write" [] n = 10 -> "seek" [] n = 11 -> "tell"
          [] n = 12 -> "close"]

ArgCount ==
    [n \in 0..12 |->
        CASE n = 0 -> 0 [] n \in {4, 10} -> 2 [] n \in {8, 9} -> 3 [] OTHER -> 1]

StackWords(p) ==
    SubSeq(<<cur[p].in.w1, cur[p].in.w2, cur[p].in.w3>>, 1, ArgCount[cur[p].num])

(* C14: for every number 0..12 the dispatcher invokes the handler of the   *)
(* fixed numbering and no other, and gives it as i-th argument the value   *)
(* of stack word i.                                                        *)
C14_DispatchByNumber ==
    \A p \in Procs :
        Active(p) /\ cur[p].numRead /\ cur[p].num \in 0..12 =>
            /\ cur[p].handler \in {"none", HandlerOf[cur[p].num]}
            /\ cur[p].handler # "none" => cur[p].hargs = StackWords(p)
            /\ pc[p] \notin ExitPcs \cup {"kfault"} => cur[p].handler # "none"

ValueCalls == {SYS_EXEC, SYS_WAIT, SYS_CREATE, SYS_REMOVE, SYS_OPEN,
               SYS_FILESIZE, SYS_READ, SYS_WRITE, SYS_TELL}

(* C15: eax is changed only by calls that produce a value, which store the *)
(* handler's result as it is; exit, seek, close, halt and every trap that  *)
(* ends in termination leave eax as it was.                                *)
C15_EaxOnlyForValues ==
    \A p \in Procs :
        Active(p) =>
            /\ cur[p].eaxW =>
                  /\ pc[p] = "ret"
                  /\ cur[p].numRead /\ cur[p].num \in ValueCalls
                  /\ cur[p].eax = cur[p].val
            /\ pc[p] = "ret" /\ cur[p].num \in ValueCalls => cur[p].eaxW
            /\ cur[p].eaxW /\ cur[p].prim \in FsPrims \ {"filesys_open"} =>
                  cur[p].eax = cur[p].res
            /\ cur[p].eaxW /\ cur[p].prim = "process_wait" =>
                  cur[p].eax \in {-1, 0, 1}

(* A tell that went through file_tell has stored its position, and a seek  *)
(* before it has stored nothing                                            *)
C15_Witness ==
    \E p \in Procs :
        /\ pc[p] = "ret" /\ cur[p].num = SYS_TELL
        /\ cur[p].prim = "file_tell" /\ cur[p].eaxW /\ cur[p].eax = 1

(* C16: for a number outside 0..12 the dispatcher does nothing or          *)
(* terminates the process; it reads no argument word, invokes no handler,  *)
(* writes no return value and changes neither the descriptor table nor the *)
(* filesystem.                                                             *)
C16_UnknownNumberFailsClosed ==
    \A p \in Procs :
        Active(p) /\ cur[p].numRead /\ cur[p].num \notin 0..12 =>
            /\ pc[p] \in {"ret"} \cup ExitPcs
            /\ pc[p] \in ExitPcs => exit_status[p] = -1
            /\ cur[p].stack \subseteq {cur[p].esp}
            /\ cur[p].args = {}
            /\ cur[p].handler = "none"
            /\ ~cur[p].eaxW
            /\ cur[p].ops = {} /\ cur[p].prim = "none" /\ ~cur[p].alloc
            /\ pc[p] \in {"ret", "exited"} => TableUntouched(p) /\ lock # p

(* An unknown number trapped by a process that has a file open *)
C16_Witness ==
    \E p \in Procs :
        /\ Active(p) /\ cur[p].numRead /\ cur[p].num = 13
        /\ open_fd_list[p] # <<>>

C17_Call(p) ==
    /\ Active(p) /\ StackMapped(p)
    /\ cur[p].numRead /\ cur[p].num = SYS_READ
    /\ {"fd", "ptr", "size"} \subseteq cur[p].args
    /\ ValidAddr(p, cur[p].ptr)
    /\ \A a \in BufRange(p) : ValidAddr(p, a)

(* C17: read on descriptor 0 with a valid buffer of size n takes n         *)
(* characters from the keyboard one at a time, stores them in order in     *)
(* buf[0..n-1] and returns n; read on descriptor 1 returns -1 and takes no *)
(* character; neither calls a filesystem primitive.                        *)
C17_KeyboardRead ==
    \A p \in Procs :
        C17_Call(p) =>
            /\ cur[p].fd = 0 =>
                  /\ pc[p] = "ret"
                  /\ cur[p].getc = cur[p].size
                  /\ cur[p].stored =
                        [i \in 1..cur[p].size |-> <<cur[p].ptr + i - 1, i>>]
                  /\ cur[p].eaxW /\ cur[p].eax = cur[p].size
                  /\ cur[p].ops \cap FsPrims = {}
            /\ cur[p].fd = 1 =>
                  /\ pc[p] = "ret"
                  /\ cur[p].getc = 0
                  /\ cur[p].eaxW /\ cur[p].eax = -1
                  /\ cur[p].ops \cap FsPrims = {}


C20_Call(p) ==
    /\ Active(p)
    /\ cur[p].numRead /\ cur[p].num \in {SYS_READ, SYS_WRITE}
    /\ {"ptr", "size"} \subseteq cur[p].args
    /\ \A i \in 0..3 : ValidAddr(p, cur[p].esp + i)

(* C20: validate_buffer(addr, length) terminates the process if and only   *)
(* if some address of [addr, addr+length) is invalid; a read or write of   *)
(* length 0 is never terminated because of the value of addr.              *)
C20_BufferIffPerByte ==
    \A p \in Procs :
        C20_Call(p) =>
            (Terminated(p) <=> \E a \in BufRange(p) : ~ValidAddr(p, a))


(* The handles in a process's hands: those in its table, and the one that  *)
(* filesys_open has just returned to it                                    *)
HeldBy(q) ==
    {open_fd_list[q][i].file : i \in 1..Len(open_fd_list[q])}
        \cup (IF pc[q] = "fsdone" /\ cur[q].prim = "filesys_open"
              THEN {cur[q].res} ELSE {})

C18_At(k) == e2e.step = k /\ pc[1] = "ret"

C21_Words(p) == {cur[p].esp + i : i \in 0..ArgCount[cur[p].num]}

(* C21: every stack word the dispatcher reads has passed validation before *)
(* it is read; a call one of whose argument words lies at an invalid       *)
(* address is terminated with status -1 and that word is not read.         *)
C21_StackReadOnlyAfterValidation ==
    \A p \in Procs :
        Active(p) =>
            /\ cur[p].stack \subseteq cur[p].checked
            /\ cur[p].numRead /\ cur[p].num \in 0..12 =>
                 \A a \in C21_Words(p) :
                     ~ValidAddr(p, a) => Terminated(p) /\ a \notin cur[p].stack


FilePrims == {"file_close", "file_read", "file_write", "file_seek",
              "file_tell", "file_length"}

(* A primitive is entered on a handle: the handle is open *)
C22_Use(p) ==
    /\ pc[p] = "locked" /\ pc'[p] = "infs" /\ cur[p].prim \in FilePrims =>
          cur[p].file \in openFiles
    /\ pc[p] \in {"exited", "cleanup"} /\ pc'[p] = "closing" =>
          Head(open_fd_list[p]).file \in openFiles

(* file_close of a close call runs under the lock and closes that file *)
C22_Closed(p) ==
    pc[p] = "infs" /\ pc'[p] = "fsdone" /\ cur[p].prim = "file_close" =>
        /\ lock = p
        /\ cur[p].num = SYS_CLOSE
        /\ \E i \in 1..Len(open_fd_list[p]) :
              open_fd_list[p][i] = [fd |-> cur[p].fd, file |-> cur[p].file]
        /\ openFiles' = openFiles \ {cur[p].file}

(* The close call returns: its entry is gone, the others and the counter   *)
(* are as they were                                                        *)
C22_Removed(p) ==
    pc[p] = "fsdone" /\ pc'[p] = "ret" /\ cur[p].prim = "file_close" =>
        LET l == open_fd_list[p]
            i == CHOOSE k \in 1..Len(l) : l[k].fd = cur[p].fd
        IN /\ open_fd_list'[p] = RemoveAt(l, i)
           /\ \A k \in 1..Len(open_fd_list'[p]) : open_fd_list'[p][k].fd # cur[p].fd
           /\ next_fd'[p] = next_fd[p]
           /\ cur'[p].ops \cap FsPrims = {"file_close"}

(* close of an id that is not in the table does nothing *)
C22_Absent(p) ==
    /\ pc[p] = "user" /\ pc'[p] # "user"
    /\ cur'[p].numRead /\ cur'[p].num = SYS_CLOSE /\ "fd" \in cur'[p].args
    /\ cur'[p].fd \notin Ids(p)
    => /\ pc'[p] = "ret"
       /\ cur'[p].ops = {}
       /\ open_fd_list'[p] = open_fd_list[p] /\ next_fd'[p] = next_fd[p]

(* C22: close(id) on an id in the caller's table closes the entry's file   *)
(* once, under the filesystem lock, and removes that entry and no other,   *)
(* the counter unchanged; afterwards the id is absent and a second         *)
(* close(id) does nothing; no file handle is closed twice or used after    *)
(* it was closed.                                                          *)
C22_CloseOnce ==
    [][\A p \in Procs :
          C22_Use(p) /\ C22_Closed(p) /\ C22_Removed(p) /\ C22_Absent(p)]_vars

(* A close has returned after removing one of two entries *)
C22_Witness ==
    \E p \in Procs :
        /\ pc[p] = "ret" /\ cur[p].num = SYS_CLOSE
        /\ "file_close" \in cur[p].ops
        /\ Cardinality(cur[p].ids0) = 2
        /\ Len(open_fd_list[p]) = 1


C23_Call(p) ==
    /\ pc[p] = "ret"
    /\ cur[p].numRead /\ cur[p].num = SYS_OPEN
    /\ "filesys_open" \in cur[p].ops /\ cur[p].res = NoFile

(* C23: an open whose filesystem open yields no file returns -1, creates   *)
(* no table entry and does not advance the next-descriptor counter.        *)
C23_FailedOpenLeavesState ==
    \A p \in Procs :
        C23_Call(p) =>
            /\ cur[p].eaxW /\ cur[p].eax = -1
            /\ Ids(p) = cur[p].ids0
            /\ next_fd[p] = cur[p].nfd0


C24_InExec(p) ==
    /\ cur[p].numRead /\ cur[p].num = SYS_EXEC
    /\ pc[p] \in {"collab", "sema"}

(* One handshake: the semaphore is raised once by the child and lowered    *)
(* at most once by the parent, and the parent is past it only after the    *)
(* child's signal                                                          *)
C24_OneHandshake ==
    \A p \in Procs :
        /\ cur[p].init_sema \in 0..1
        /\ cur[p].load = "loading" => cur[p].init_sema = 0
        /\ pc[p] = "sema" =>
              /\ cur[p].load # "none"
              /\ cur[p].init_sema = 1 <=> cur[p].load \in {"ok", "fail"}
        /\ pc[p] = "ret" /\ cur[p].num = SYS_EXEC /\ impl = "syscall_c"
                         /\ cur[p].load # "none" =>
              cur[p].load \in {"ok", "fail"} /\ cur[p].init_sema = 0

C25_InCall(p) == pc[p] \in {"wait", "locked", "infs", "fsdone"}

(* C25: no syscall path asks for the filesystem lock while holding it and  *)
(* no path of a handler ends with the lock still held; under fair          *)
(* scheduling every thread that asks for the lock obtains it and every     *)
(* file syscall runs to completion or ends with the end of its process,    *)
(* with two processes issuing syscalls concurrently.                       *)
C25_LockLiveness ==
    /\ [](\A p \in Procs : pc[p] = "wait" => lock # p)
    /\ [](\A p \in Procs :
             pc[p] \in {"ret", "kfault", "exited", "cleanup", "dead"} => lock # p)
    /\ \A p \in Procs : (pc[p] = "wait") ~> (pc[p] = "locked")
    /\ \A p \in Procs :
          C25_InCall(p) ~> (pc[p] \in {"ret", "kfault"} \cup ExitPcs)


(* C26: when open or close returns, the handle records the call has        *)
(* allocated and not released are as many as the entries it has added to   *)
(* the caller's table, so live records and table entries stay equal in     *)
(* number; a failed open leaks no record.                                  *)
C26_RecordsMatchEntries ==
    \A p \in Procs :
        pc[p] = "ret" /\ cur[p].numRead /\ cur[p].num \in {SYS_OPEN, SYS_CLOSE} =>
            cur[p].recs = Len(open_fd_list[p]) - Cardinality(cur[p].ids0)

====
